---- MODULE Spec2Model ----
(***************************************************************************)
(* The streaming chat client of src/unnamed/part_000 (the revision with    *)
(* bounded retry): conversation history kept in memory and in              *)
(* localStorage, one request per attempt, a newline-delimited JSON stream  *)
(* read chunk by chunk, exponential backoff, rollback of the user message  *)
(* after the last failed attempt.                                          *)
(*                                                                         *)
(* One action of the model is one run-to-completion step of the page: the  *)
(* code from an event (a submit, a click, a timer, a settled fetch or      *)
(* read) up to the next await on the network or on a timer.  Promise       *)
(* continuations between those points are microtasks and cannot be         *)
(* interleaved with other events.                                          *)
(*                                                                         *)
(* Text is a sequence of one-character strings.  The wire format keeps     *)
(* the shape of the service's records in a reduced alphabet:               *)
(*    {  }        object delimiters                                        *)
(*    T v         "message":{"content": v}                                 *)
(*    M v         "model": v                                               *)
(*    K v         "Credits": v                                             *)
(*    v           one of a b e 1 2, or _ for the empty (falsy) value       *)
(*    E1 E2       the two bytes of the character e (a multi-byte char)     *)
(*    x           a character that fits nowhere in a record                *)
(***************************************************************************)
EXTENDS Integers, Sequences, FiniteSets, TLC

\* ------------------------------------------------------------------------
\* Program constants
\* ------------------------------------------------------------------------
MAX_RETRY_ATTEMPTS == 3

RETRY_DELAY == 1000

HISTORY_WINDOW == 20

\* ------------------------------------------------------------------------
\* Bounds of the model
\* ------------------------------------------------------------------------
\* Sends that can be in flight together (a submit and the auto-retry timer).
MaxInFlight == 2

\* A submit is accepted by the model while the conversation is shorter.
MaxConv == 2

\* Lines of a response body of the stream specification.
MaxLines == 2

\* Places at which the network cuts such a body.
MaxCuts == 1

\* Messages of the longest conversation found in storage when the page loads.
MaxStored == 22

\* Elements of the longest array found in storage by the storage
\* specification.
MaxItems == 3

\* ------------------------------------------------------------------------
\* Values
\* ------------------------------------------------------------------------
NL == "\n"

SP == " "

\* JavaScript's undefined / null for an optional string.
Undefined == "undefined"

Keys == {"T", "M", "K"}

Values == {"a", "b", "e", "1", "2", "_"}

\* The value that JavaScript treats as falsy (the empty string).
Falsy == "_"

\* U+FFFD, what TextDecoder emits for a malformed byte sequence.
Replacement == "?"

\* ------------------------------------------------------------------------
\* Sequence helpers
\* ------------------------------------------------------------------------
RECURSIVE Flatten(_)
Flatten(ss) ==
    IF ss = <<>> THEN <<>> ELSE Head(ss) \o Flatten(Tail(ss))

Last(s) == s[Len(s)]

Front(s) == SubSeq(s, 1, Len(s) - 1)

\* Variant: the window is taken from the start of the conversation.
SliceLast_First(s, n) ==
    IF Len(s) <= n THEN s ELSE SubSeq(s, 1, n)

\* Array.prototype.slice(-n)
SliceLast(s, n) ==
    IF Len(s) <= n THEN s ELSE SubSeq(s, Len(s) - n + 1, Len(s))

\* ------------------------------------------------------------------------
\* TextDecoder.decode(value, {stream: true})
\* ------------------------------------------------------------------------
\* Decodes the bytes bs; an incomplete multi-byte sequence at the end is
\* held for the next call.  Result: [text, held].
RECURSIVE Utf8Decode(_)
Utf8Decode(bs) ==
    IF bs = <<>> THEN [text |-> <<>>, held |-> <<>>]
    ELSE IF Head(bs) = "E1" THEN
        IF Len(bs) = 1 THEN [text |-> <<>>, held |-> bs]
        ELSE IF bs[2] = "E2" THEN
            [Utf8Decode(SubSeq(bs, 3, Len(bs))) EXCEPT !.text = <<"e">> \o @]
        ELSE
            [Utf8Decode(Tail(bs)) EXCEPT !.text = <<Replacement>> \o @]
    ELSE IF Head(bs) = "E2" THEN
        [Utf8Decode(Tail(bs)) EXCEPT !.text = <<Replacement>> \o @]
    ELSE
        [Utf8Decode(Tail(bs)) EXCEPT !.text = <<Head(bs)>> \o @]

DecodeStream(held, chunk) == Utf8Decode(held \o chunk)

\* ------------------------------------------------------------------------
\* String.prototype.split("\n") and trim()
\* ------------------------------------------------------------------------
\* The pieces of text between its newlines: one more than it has newlines.
SplitLines(text) ==
    LET at     == {k \in 1..Len(text) : text[k] = NL}
        nth(n) == IF n = 0 THEN 0
                  ELSE IF n > Cardinality(at) THEN Len(text) + 1
                  ELSE CHOOSE k \in at : Cardinality({j \in at : j <= k}) = n
    IN  [n \in 1..(Cardinality(at) + 1) |->
            SubSeq(text, nth(n - 1) + 1, nth(n) - 1)]

RECURSIVE TrimLeft(_)
TrimLeft(s) ==
    IF s # <<>> /\ Head(s) = SP THEN TrimLeft(Tail(s)) ELSE s

RECURSIVE TrimRight(_)
TrimRight(s) ==
    IF s # <<>> /\ Last(s) = SP THEN TrimRight(Front(s)) ELSE s

Trim(s) == TrimRight(TrimLeft(s))

\* ------------------------------------------------------------------------
\* JSON.parse of one line of the stream
\* ------------------------------------------------------------------------
\* The text of an object: { then key/value pairs then }.
IsObjectText(t) ==
    /\ Len(t) >= 2
    /\ t[1] = "{"
    /\ t[Len(t)] = "}"
    /\ Len(t) % 2 = 0
    /\ \A k \in 1..((Len(t) - 2) \div 2) :
           t[2 * k] \in Keys /\ t[2 * k + 1] \in Values

\* The text of a bare number: valid JSON that is no object.
IsScalarText(t) == Len(t) = 1 /\ t[1] \in {"1", "2"}

\* JSON.parse(line) returns instead of throwing a SyntaxError.
JsonParses(line) ==
    LET t == Trim(line) IN IsObjectText(t) \/ IsScalarText(t)

\* data[key] of the parsed line: the value of the last pair with that key.
JsonField(line, key) ==
    LET t == Trim(line)
        at == IF IsObjectText(t)
                 THEN {k \in 1..((Len(t) - 2) \div 2) : t[2 * k] = key}
                 ELSE {}
    IN  IF at = {} THEN Undefined
        ELSE t[2 * (CHOOSE k \in at : \A j \in at : j <= k) + 1]

Truthy(v) == v # Undefined /\ v # Falsy

\* ------------------------------------------------------------------------
\* JSON.stringify / JSON.parse of the conversation
\* ------------------------------------------------------------------------
\* A message is [role, content, model]; a property that is absent is
\* Undefined (NoContent for content, which is a text).  The JSON text of an
\* object is the list of its key/value pairs in insertion order;
\* JSON.stringify leaves an undefined property out.
NoContent == <<Undefined>>

\* Variant: the model is written also when the message has none.
MessageToJson_ModelAlways(m) ==
    (IF m.role = Undefined THEN <<>> ELSE <<<<"role", m.role>>>>)
        \o (IF m.content = NoContent THEN <<>> ELSE <<<<"content", m.content>>>>)
        \o <<<<"model", m.model>>>>

MessageToJson(m) ==
    (IF m.role = Undefined THEN <<>> ELSE <<<<"role", m.role>>>>)
        \o (IF m.content = NoContent THEN <<>> ELSE <<<<"content", m.content>>>>)
        \o (IF m.model = Undefined THEN <<>> ELSE <<<<"model", m.model>>>>)

\* obj[key] of a parsed object (absent when no pair has the key).
Property(j, key, absent) ==
    LET at == {k \in 1..Len(j) : j[k][1] = key}
    IN  IF at = {} THEN absent ELSE j[CHOOSE k \in at : TRUE][2]

JsonToMessage(j) ==
    [role |-> Property(j, "role", Undefined),
     content |-> Property(j, "content", NoContent),
     model |-> Property(j, "model", Undefined)]

\* A stored or transmitted JSON text is [kind, items]: kind "array" with the
\* texts of its elements (objects), or a text that is no array: "garbage"
\* (no JSON), "null", "number", "object" (JSON, but no array).
JsonArray(items) == [kind |-> "array", items |-> items]

\* JSON.stringify(conversationHistory)
Stringify(conv) == JsonArray([i \in 1..Len(conv) |-> MessageToJson(conv[i])])

\* JSON.parse of the text of an array.
ParseStored(json) ==
    [i \in 1..Len(json.items) |-> JsonToMessage(json.items[i])]

UserMessage(text) == [role |-> "user", content |-> text, model |-> Undefined]

AssistantMessage(text, model) ==
    [role |-> "assistant", content |-> text, model |-> model]

\* ------------------------------------------------------------------------
\* State
\* ------------------------------------------------------------------------
VARIABLES
    conversationHistory,  \* the in-memory conversation
    storage,              \* localStorage[STORAGE_KEY]: <<>> or <<JSON text>>
    accessToken,          \* the held credential or NoToken
    href,                 \* navigation requested through window.location.href
    inputDisabled,        \* sendButton.disabled and messageInput.disabled
    typingIndicator,      \* the typing indicator is shown
    status,               \* the text last given to updateStatus
    retryTimer,           \* the auto-retry timer of checkForAuthToken is pending
    storageFails,         \* localStorage.setItem throws
    send                  \* the invocations of sendWrapper in flight or finished

vars ==
    <<conversationHistory, storage, accessToken, href, inputDisabled,
      typingIndicator, status, retryTimer, storageFails, send>>

NoToken == "null"

NoHref == "none"

\* The token of the URL fragment when the page is loaded.
Tokens == {NoToken, "tok"}

Slots == 1..MaxInFlight

\* A status notice: the kind of message and the values formatted into it.
Notice(kind, value, attempt, delay) ==
    [kind |-> kind, value |-> value, attempt |-> attempt, delay |-> delay]

NoRequest == [body |-> [model |-> "", messages |-> <<>>], headers |-> {}]

NoBody == [lines |-> <<>>, cuts |-> {}]

\* The locals of one sendWrapper invocation.  pc is the await it is
\* suspended at.  outcomes (what each attempt met: "notok", "location",
\* "netfail", "ok", "readfail"), requests, waits, statuses, renders,
\* warnings, body, atSend (the conversation when sendWrapper was called),
\* resumed (sendWrapper was called without a message pushed before it, as
\* the timer of checkForAuthToken does), quiet (no other operation has
\* acted since), rolledBack and navigated record what the invocation did
\* and are read by no action.
IdleSend ==
    [pc |-> "idle", attemptNumber |-> 0, request |-> NoRequest, requests |-> 0,
     outcomes |-> <<>>, waits |-> <<>>, statuses |-> <<>>,
     chunks |-> <<>>, body |-> NoBody, held |-> <<>>,
     assistantMessage |-> <<>>, handledModel |-> "", messageElement |-> <<>>,
     renders |-> <<>>, warnings |-> 0,
     result |-> "none", rolledBack |-> FALSE, navigated |-> FALSE,
     atSend |-> <<>>, resumed |-> FALSE, quiet |-> TRUE]

\* ------------------------------------------------------------------------
\* readStreamChunk: one line, one chunk
\* ------------------------------------------------------------------------
\* addMessage("assistant", ...) for the first content, updateMessageContent
\* afterwards: the element keeps the model it was created with.
RenderPartial(r) ==
    LET el == IF r.messageElement = <<>>
                 THEN [text |-> r.assistantMessage, model |-> r.handledModel]
                 ELSE [r.messageElement[1] EXCEPT !.text = r.assistantMessage]
    IN  [r EXCEPT !.messageElement = <<el>>, !.renders = Append(@, el)]

\* The catch block around JSON.parse and the handling of the record.
OnParseError(r) == [r EXCEPT !.warnings = @ + 1]

\* Variant: the credits record closes the text read so far.
OnCredits_ClosesText(r, credits) ==
    [r EXCEPT !.statuses = Append(@, Notice("credits", credits, 0, 0)),
              !.assistantMessage = <<>>]

\* if (data.Credits !== undefined): updateStatus, continue.
OnCredits(r, credits) ==
    [r EXCEPT !.statuses = Append(@, Notice("credits", credits, 0, 0))]

\* Variant: the content of a record replaces the text read so far.
HandleLine_ReplacesText(r, line) ==
    IF Trim(line) = <<>> THEN r
    ELSE IF ~JsonParses(line) THEN OnParseError(r)
    ELSE IF JsonField(line, "K") # Undefined THEN
        OnCredits(r, JsonField(line, "K"))
    ELSE
        LET m  == JsonField(line, "M")
            c  == JsonField(line, "T")
            r1 == IF Truthy(m) THEN [r EXCEPT !.handledModel = m] ELSE r
        IN  IF Truthy(c)
               THEN RenderPartial([r1 EXCEPT !.assistantMessage = <<c>>])
               ELSE r1

\* Variant: the model of a record is taken only when the record has content.
HandleLine_ModelWithContent(r, line) ==
    IF Trim(line) = <<>> THEN r
    ELSE IF ~JsonParses(line) THEN OnParseError(r)
    ELSE IF JsonField(line, "K") # Undefined THEN
        OnCredits(r, JsonField(line, "K"))
    ELSE
        LET m  == JsonField(line, "M")
            c  == JsonField(line, "T")
            r1 == IF Truthy(m) THEN [r EXCEPT !.handledModel = m] ELSE r
        IN  IF Truthy(c)
               THEN RenderPartial([r1 EXCEPT !.assistantMessage = @ \o <<c>>])
               ELSE r

\* One line of the chunk: skipped when blank, a warning when JSON.parse
\* throws, a status when it is a credits record; otherwise its model, if
\* any, becomes handledModel and its content, if any, is added and shown.
HandleLine(r, line) ==
    IF Trim(line) = <<>> THEN r
    ELSE IF ~JsonParses(line) THEN OnParseError(r)
    ELSE IF JsonField(line, "K") # Undefined THEN
        OnCredits(r, JsonField(line, "K"))
    ELSE
        LET m  == JsonField(line, "M")
            c  == JsonField(line, "T")
            r1 == IF Truthy(m) THEN [r EXCEPT !.handledModel = m] ELSE r
        IN  IF Truthy(c)
               THEN RenderPartial([r1 EXCEPT !.assistantMessage = @ \o <<c>>])
               ELSE r1

\* The value of a set of one element: what is drawn from the set has been
\* computed once, however often it is used.
Once(S) == CHOOSE v \in S : TRUE

\* for (const line of lines)
RECURSIVE HandleLines(_, _)
HandleLines(r, lines) ==
    IF lines = <<>> THEN r
    ELSE Once({HandleLines(next, Tail(lines)) :
                  next \in {HandleLine(r, line) : line \in {Head(lines)}}})

\* The body of readStreamChunk for a chunk that is not the end of data.
HandleChunk(r, chunk) ==
    Once({Once({HandleLines([r EXCEPT !.held = d.held], lines) :
                   lines \in {SplitLines(d.text)}}) :
             d \in {DecodeStream(r.held, chunk)}})

RECURSIVE HandleChunks(_, _)
HandleChunks(r, chunks) ==
    IF chunks = <<>> THEN r
    ELSE HandleChunks(HandleChunk(r, Head(chunks)), Tail(chunks))

\* ------------------------------------------------------------------------
\* A response body on the wire
\* ------------------------------------------------------------------------
\* A body is [lines, cuts]: the lines the service wrote, each followed by a
\* newline, and the byte positions after which the network cut the body
\* into the chunks that reader.read() delivers.
WireBytes(lines) == Flatten([i \in 1..Len(lines) |-> lines[i] \o <<NL>>])

RECURSIVE Pick(_, _)
Pick(bytes, at) ==
    IF at = {} THEN <<>>
    ELSE LET m == CHOOSE p \in at : \A q \in at : p <= q
         IN  <<bytes[m]>> \o Pick(bytes, at \ {m})

ChunkIndex(p, cuts) == 1 + Cardinality({c \in cuts : c < p})

\* The chunks of bytes cut at cuts, keeping only the positions in keep.
ChunksOf(bytes, cuts, keep) ==
    IF bytes = <<>> THEN <<>>
    ELSE [k \in 1..(Cardinality(cuts) + 1) |->
             Pick(bytes, {p \in keep : ChunkIndex(p, cuts) = k})]

Chunks(body) ==
    LET bytes == WireBytes(body.lines)
    IN  ChunksOf(bytes, body.cuts, 1..Len(bytes))

\* ------------------------------------------------------------------------
\* The request of one attempt (handleStreamingResponse, up to fetch)
\* ------------------------------------------------------------------------
\* Variant: the Authorization header is sent whether or not a token is held.
BuildRequest_AlwaysAuth(conv, token) ==
    [body    |-> [model |-> "cheapest",
                  messages |-> Stringify(SliceLast(conv, HISTORY_WINDOW)).items],
     headers |-> {<<"Content-Type", "application/json">>, <<"Redirect", "/">>,
                  <<"Authorization", token>>}]

BuildRequest(conv, token) ==
    [body    |-> [model |-> "cheapest",
                  messages |-> Stringify(SliceLast(conv, HISTORY_WINDOW)).items],
     headers |-> {<<"Content-Type", "application/json">>, <<"Redirect", "/">>}
                    \cup (IF token # NoToken
                             THEN {<<"Authorization", token>>} ELSE {})]

\* handleStreamingResponseWithRetry(n) up to the await of fetch.
StartAttempt(r, n, conv, token) ==
    [r EXCEPT !.pc = "fetch", !.attemptNumber = n,
              !.request = BuildRequest(conv, token), !.requests = @ + 1]

\* ------------------------------------------------------------------------
\* localStorage
\* ------------------------------------------------------------------------
\* localStorage.setItem(STORAGE_KEY, JSON.stringify(conversationHistory))
SaveConversationToStorage(conv) == <<Stringify(conv)>>

\* Variant: the conversation is not saved.
Write_Never(conv) == storage

\* saveConversationToStorage: setItem may throw (quota exceeded, storage
\* disabled); the exception is caught and the entry stays as it was.
Write(conv) ==
    IF storageFails THEN storage ELSE SaveConversationToStorage(conv)

\* Variant: saveConversationToStorage lets the exception of setItem out.
SaveThrows_Uncaught == storageFails

\* An exception leaves saveConversationToStorage: never, it is caught.
SaveThrows == FALSE

\* loadConversationFromStorage on a freshly loaded page, where
\* conversationHistory is []: an absent entry leaves it, the text of an
\* array is parsed and kept, whatever its elements are.  Any other text
\* throws (JSON.parse, or .length of null, or forEach of a value that is no
\* array); the catch block resets the conversation to [].
LoadConversationFromStorage(stored) ==
    IF stored = <<>> THEN <<>>
    ELSE IF stored[1].kind = "array" THEN ParseStored(stored[1])
    ELSE <<>>

\* ------------------------------------------------------------------------
\* Bookkeeping of the sends
\* ------------------------------------------------------------------------
Free(s) == send[s].pc \in {"idle", "done"}

FreeSlot == CHOOSE s \in Slots : Free(s) /\ \A t \in Slots : Free(t) => s <= t

\* Another operation acts while the sends other than e are recorded.
Disturb(f, e) ==
    [s \in Slots |->
        IF s # e /\ f[s].pc # "idle" THEN [f[s] EXCEPT !.quiet = FALSE] ELSE f[s]]

NoNotice == Notice("none", "", 0, 0)

\* ------------------------------------------------------------------------
\* Pieces of the handlers
\* ------------------------------------------------------------------------
\* Variant: the comparison lets one attempt too many through.
AttemptsRemain_Inclusive(attemptNumber) == attemptNumber <= MAX_RETRY_ATTEMPTS

\* if (attemptNumber < MAX_RETRY_ATTEMPTS)
AttemptsRemain(attemptNumber) == attemptNumber < MAX_RETRY_ATTEMPTS

\* Variant: the exponent is the attempt number itself.
RetryDelay_FromAttempt(attemptNumber) == RETRY_DELAY * 2 ^ attemptNumber

\* RETRY_DELAY * Math.pow(2, attemptNumber - 1)
RetryDelay(attemptNumber) == RETRY_DELAY * 2 ^ (attemptNumber - 1)

\* Variant: the Location header is not looked at.
IsRedirect_Never(location) == FALSE

\* if (location): the header is present and not empty.
IsRedirect(location) == location # ""

\* What a response that is not ok is, whatever the code makes of it.
ResponseKind(location) == IF location = "" THEN "notok" ELSE "location"

\* The rollback of sendWrapper: pop the tail when it is a user message.
TailIsUser(conv) == conv # <<>> /\ Last(conv).role = "user"

\* Variant: the tail is removed whatever its role.
RollbackLast_AnyRole(conv) == IF conv # <<>> THEN Front(conv) ELSE conv

RollbackLast(conv) == IF TailIsUser(conv) THEN Front(conv) ELSE conv

\* Variant: the assistant message is pushed whatever the text.
WithAssistant_Always(conv, text, model) ==
    Append(conv, AssistantMessage(text, model))

\* Variant: the assistant message is pushed twice.
WithAssistant_Twice(conv, text, model) ==
    IF text # <<>>
       THEN Append(Append(conv, AssistantMessage(text, model)),
                   AssistantMessage(text, model))
       ELSE conv

\* The end of handleStreamingResponse: push the assistant message when the
\* accumulated text is not empty.
WithAssistant(conv, text, model) ==
    IF text # <<>> THEN Append(conv, AssistantMessage(text, model)) ELSE conv

\* ------------------------------------------------------------------------
\* Initial state: the page has loaded with nothing stored and no token
\* ------------------------------------------------------------------------
Init ==
    /\ conversationHistory = <<>>
    /\ storage = <<>>
    /\ accessToken \in Tokens
    /\ href = NoHref
    /\ inputDisabled = FALSE
    /\ typingIndicator = FALSE
    /\ status = NoNotice
    /\ retryTimer = FALSE
    /\ storageFails = FALSE
    /\ send = [s \in Slots |-> IdleSend]

\* ------------------------------------------------------------------------
\* Inputs of the environment
\* ------------------------------------------------------------------------
\* What the user may have typed when the form is submitted.
Inputs == {<<>>, <<SP>>, <<"h">>, <<SP, "h", SP>>}

\* The Location header of a response that is not ok ("" when absent).
Locations == {"", "/auth"}

\* The bodies of the 2xx responses of the main specification.
Bodies ==
    { [lines |-> <<>>, cuts |-> {}],
      [lines |-> << <<"{", "M", "1", "T", "a", "}">>, <<"{", "K", "2", "}">> >>,
       cuts  |-> {}],
      [lines |-> << <<"{", "T", "a", "}">>, <<"{", "M", "2", "T", "b", "}">> >>,
       cuts  |-> {5}] }

\* ------------------------------------------------------------------------
\* sendWrapper, from its call to the first await
\* ------------------------------------------------------------------------
SendWrapper(e, conv) ==
    /\ inputDisabled' = TRUE
    /\ typingIndicator' = TRUE
    /\ send' = [Disturb(send, e) EXCEPT
                   ![e] = StartAttempt(
                              [IdleSend EXCEPT
                                  !.atSend = conv,
                                  !.resumed = (conv = conversationHistory)],
                              1, conv, accessToken)]

\* Variant: sendWrapper has no finally block.
Finally_Skipped ==
    /\ typingIndicator' = typingIndicator
    /\ inputDisabled' = inputDisabled

\* The finally block of sendWrapper.
Finally ==
    /\ typingIndicator' = FALSE
    /\ inputDisabled' = FALSE

\* Variant: the input is submitted as it is, blank or not.
SendMessage_Untrimmed(input) ==
    /\ ~inputDisabled
    /\ Len(conversationHistory) < MaxConv
    /\ \E s \in Slots : Free(s)
    /\ LET conv == Append(conversationHistory, UserMessage(input))
       IN  /\ conversationHistory' = conv
           /\ storage' = Write(conv)
           /\ SendWrapper(FreeSlot, conv)
           /\ UNCHANGED <<accessToken, href, status, retryTimer, storageFails>>

\* The submit listener of the form.
SendMessage(input) ==
    /\ ~inputDisabled
    /\ Len(conversationHistory) < MaxConv
    /\ \E s \in Slots : Free(s)
    /\ LET message == Trim(input)
           conv    == Append(conversationHistory, UserMessage(message))
       IN  IF message = <<>> THEN UNCHANGED vars
           ELSE /\ conversationHistory' = conv
                /\ storage' = Write(conv)
                /\ IF SaveThrows
                      THEN UNCHANGED <<inputDisabled, typingIndicator, send>>
                      ELSE SendWrapper(FreeSlot, conv)
                /\ UNCHANGED <<accessToken, href, status, retryTimer,
                               storageFails>>

\* ------------------------------------------------------------------------
\* The settled fetch
\* ------------------------------------------------------------------------
\* fetch rejects: the exception leaves handleStreamingResponse,
\* handleStreamingResponseWithRetry and, through finally, sendWrapper.
FetchRejects(e) ==
    /\ send[e].pc = "fetch"
    /\ send' = [Disturb(send, e) EXCEPT
                   ![e] = [@ EXCEPT !.pc = "done", !.result = "threw",
                                    !.outcomes = Append(@, "netfail")]]
    /\ Finally
    /\ UNCHANGED <<conversationHistory, storage, accessToken, href, status,
                   retryTimer, storageFails>>

\* Variant: every failed attempt takes the user message back.
Backoff_RollsBack(e, outcome) ==
    LET n      == send[e].attemptNumber
        notice == Notice("retry", "", n, RetryDelay(n))
        conv   == RollbackLast(conversationHistory)
    IN  /\ status' = notice
        /\ conversationHistory' = conv
        /\ storage' = Write(conv)
        /\ send' = [Disturb(send, e) EXCEPT
                       ![e] = [@ EXCEPT !.pc = "sleep",
                                        !.waits = Append(@, RetryDelay(n)),
                                        !.statuses = Append(@, notice),
                                        !.outcomes = Append(@, outcome)]]
        /\ UNCHANGED <<accessToken, href, inputDisabled, typingIndicator,
                       retryTimer, storageFails>>

\* A failed attempt with attempts left: status, then sleep(delay).
Backoff(e, outcome) ==
    LET n      == send[e].attemptNumber
        notice == Notice("retry", "", n, RetryDelay(n))
    IN  /\ status' = notice
        /\ send' = [Disturb(send, e) EXCEPT
                       ![e] = [@ EXCEPT !.pc = "sleep",
                                        !.waits = Append(@, RetryDelay(n)),
                                        !.statuses = Append(@, notice),
                                        !.outcomes = Append(@, outcome)]]
        /\ UNCHANGED <<conversationHistory, storage, accessToken, href,
                       inputDisabled, typingIndicator, retryTimer, storageFails>>

\* The last failed attempt: status, return false, rollback, finally.
Exhausted(e, outcome) ==
    LET notice == Notice("failed", "", 0, 0)
        conv   == RollbackLast(conversationHistory)
    IN  /\ status' = notice
        /\ conversationHistory' = conv
        /\ storage' = IF TailIsUser(conversationHistory)
                         THEN Write(conv) ELSE storage
        /\ send' = [Disturb(send, e) EXCEPT
                       ![e] = [@ EXCEPT !.pc = "done", !.result = "false",
                                        !.rolledBack = TailIsUser(conversationHistory),
                                        !.statuses = Append(@, notice),
                                        !.outcomes = Append(@, outcome)]]
        /\ Finally
        /\ UNCHANGED <<accessToken, href, retryTimer, storageFails>>

\* handleStreamingResponse returned false.
Failed(e, outcome) ==
    IF AttemptsRemain(send[e].attemptNumber)
       THEN Backoff(e, outcome) ELSE Exhausted(e, outcome)

\* Variant: a response with a Location is a failed attempt like any other.
Redirected_AsFailure(e, location) == Failed(e, ResponseKind(location))

\* A response that is not ok and carries a Location: navigate, return true.
Redirected(e, location) ==
    /\ href' = location
    /\ send' = [Disturb(send, e) EXCEPT
                   ![e] = [@ EXCEPT !.pc = "done", !.result = "true",
                                    !.navigated = TRUE,
                                    !.outcomes = Append(@, ResponseKind(location))]]
    /\ Finally
    /\ UNCHANGED <<conversationHistory, storage, accessToken, status,
                   retryTimer, storageFails>>

\* fetch resolves with a response that is not ok.
ResponseNotOk(e, location) ==
    /\ send[e].pc = "fetch"
    /\ IF IsRedirect(location)
          THEN Redirected(e, location)
          ELSE Failed(e, ResponseKind(location))

\* fetch resolves with a 2xx response: the locals of the reader are set and
\* the first read is awaited.
ResponseOk(e, body) ==
    /\ send[e].pc = "fetch"
    /\ send' = [Disturb(send, e) EXCEPT
                   ![e] = [@ EXCEPT !.pc = "read", !.chunks = Chunks(body),
                                    !.body = body, !.held = <<>>,
                                    !.assistantMessage = <<>>,
                                    !.handledModel = "",
                                    !.messageElement = <<>>]]
    /\ UNCHANGED <<conversationHistory, storage, accessToken, href,
                   inputDisabled, typingIndicator, status, retryTimer, storageFails>>

\* ------------------------------------------------------------------------
\* The settled read
\* ------------------------------------------------------------------------
\* reader.read() delivers a chunk: decode, split, handle each line, read on.
ReadChunk(e) ==
    /\ send[e].pc = "read"
    /\ send[e].chunks # <<>>
    /\ LET r  == send[e]
           r2 == HandleChunk(r, Head(r.chunks))
       IN  /\ send' = [Disturb(send, e) EXCEPT
                          ![e] = [r2 EXCEPT !.chunks = Tail(r.chunks)]]
           /\ typingIndicator' =
                  IF r.messageElement = <<>> /\ r2.messageElement # <<>>
                     THEN FALSE ELSE typingIndicator
           /\ status' = IF Len(r2.statuses) > Len(r.statuses)
                           THEN Last(r2.statuses) ELSE status
    /\ UNCHANGED <<conversationHistory, storage, accessToken, href,
                   inputDisabled, retryTimer, storageFails>>

\* Variant: a stream that ends without text is a failed attempt.
ReadDone_EmptyIsFailure(e) ==
    /\ send[e].pc = "read"
    /\ send[e].chunks = <<>>
    /\ IF send[e].assistantMessage = <<>>
          THEN Failed(e, "ok")
          ELSE LET conv == WithAssistant(conversationHistory,
                                         send[e].assistantMessage,
                                         send[e].handledModel)
               IN  /\ conversationHistory' = conv
                   /\ storage' = Write(conv)
                   /\ send' = [Disturb(send, e) EXCEPT
                                  ![e] = [@ EXCEPT !.pc = "done",
                                                   !.result = "true",
                                                   !.outcomes = Append(@, "ok")]]
                   /\ Finally
                   /\ UNCHANGED <<accessToken, href, status, retryTimer,
                                  storageFails>>

\* reader.read() reports the end of data: the assistant message is pushed
\* and saved, true is returned up to sendWrapper, finally.
ReadDone(e) ==
    /\ send[e].pc = "read"
    /\ send[e].chunks = <<>>
    /\ LET r    == send[e]
           conv == WithAssistant(conversationHistory, r.assistantMessage,
                                 r.handledModel)
       IN  /\ conversationHistory' = conv
           /\ storage' = IF conv # conversationHistory
                            THEN Write(conv) ELSE storage
    /\ send' = [Disturb(send, e) EXCEPT
                   ![e] = [@ EXCEPT !.pc = "done", !.result = "true",
                                    !.outcomes = Append(@, "ok")]]
    /\ Finally
    /\ UNCHANGED <<accessToken, href, status, retryTimer, storageFails>>

\* reader.read() rejects: the exception leaves through finally.
ReadRejects(e) ==
    /\ send[e].pc = "read"
    /\ send' = [Disturb(send, e) EXCEPT
                   ![e] = [@ EXCEPT !.pc = "done", !.result = "threw",
                                    !.outcomes = Append(@, "readfail")]]
    /\ Finally
    /\ UNCHANGED <<conversationHistory, storage, accessToken, href, status,
                   retryTimer, storageFails>>

\* ------------------------------------------------------------------------
\* The elapsed backoff
\* ------------------------------------------------------------------------
\* Variant: the retry sends the conversation captured when the send began.
RetryAttempt_Captured(e) ==
    /\ send[e].pc = "sleep"
    /\ send' = [Disturb(send, e) EXCEPT
                   ![e] = StartAttempt(@, @.attemptNumber + 1,
                                       @.atSend, accessToken)]
    /\ UNCHANGED <<conversationHistory, storage, accessToken, href,
                   inputDisabled, typingIndicator, status, retryTimer,
                   storageFails>>

\* sleep(delay) resolves: handleStreamingResponseWithRetry(attemptNumber + 1).
RetryAttempt(e) ==
    /\ send[e].pc = "sleep"
    /\ send' = [Disturb(send, e) EXCEPT
                   ![e] = StartAttempt(@, @.attemptNumber + 1,
                                       conversationHistory, accessToken)]
    /\ UNCHANGED <<conversationHistory, storage, accessToken, href,
                   inputDisabled, typingIndicator, status, retryTimer, storageFails>>

\* ------------------------------------------------------------------------
\* The clear button
\* ------------------------------------------------------------------------
\* Variant: the clear button empties the memory and leaves the backing store.
ClearConversation_MemoryOnly ==
    /\ conversationHistory' = <<>>
    /\ storage' = storage
    /\ status' = Notice("cleared", "", 0, 0)
    /\ send' = Disturb(send, 0)
    /\ UNCHANGED <<accessToken, href, inputDisabled, typingIndicator,
                   retryTimer, storageFails>>

\* clearConversation
ClearConversation ==
    /\ conversationHistory' = <<>>
    /\ storage' = <<>>
    /\ status' = Notice("cleared", "", 0, 0)
    /\ send' = Disturb(send, 0)
    /\ UNCHANGED <<accessToken, href, inputDisabled, typingIndicator,
                   retryTimer, storageFails>>

\* ------------------------------------------------------------------------
\* The page loaded again after a navigation
\* ------------------------------------------------------------------------
\* checkForAuthToken, after loadConversationFromStorage: the status it
\* leaves and whether it arms the auto-retry timer.
AuthStatus(conv, token) ==
    IF token = NoToken THEN NoNotice
    ELSE IF TailIsUser(conv) THEN Notice("retrying", "", 0, 0)
    ELSE Notice("authenticated", "", 0, 0)

\* The navigation requested by a redirect completes: the page and all its
\* pending work are gone, the load listener runs in the new page.
PageLoad(token) ==
    /\ href # NoHref
    /\ LET conv == LoadConversationFromStorage(storage)
       IN  /\ conversationHistory' = conv
           /\ accessToken' = token
           /\ status' = AuthStatus(conv, token)
           /\ retryTimer' = (token # NoToken /\ TailIsUser(conv))
    /\ href' = NoHref
    /\ inputDisabled' = FALSE
    /\ typingIndicator' = FALSE
    /\ send' = [s \in Slots |-> IdleSend]
    /\ UNCHANGED <<storage, storageFails>>

\* Variant: the timer submits the last user message again.
AutoRetry_Resubmits ==
    /\ retryTimer
    /\ \E s \in Slots : Free(s)
    /\ retryTimer' = FALSE
    /\ LET conv == Append(conversationHistory, Last(conversationHistory))
       IN  /\ conversationHistory' = conv
           /\ storage' = Write(conv)
           /\ SendWrapper(FreeSlot, conv)
    /\ UNCHANGED <<accessToken, href, status, storageFails>>

\* The timer of checkForAuthToken fires: sendWrapper().
AutoRetry ==
    /\ retryTimer
    /\ \E s \in Slots : Free(s)
    /\ retryTimer' = FALSE
    /\ SendWrapper(FreeSlot, conversationHistory)
    /\ UNCHANGED <<conversationHistory, storage, accessToken, href, status,
                   storageFails>>

\* ------------------------------------------------------------------------
\* The specification of the page
\* ------------------------------------------------------------------------
Next ==
    \/ \E input \in Inputs : SendMessage(input)
    \/ \E e \in Slots : FetchRejects(e)
    \/ \E e \in Slots, location \in Locations : ResponseNotOk(e, location)
    \/ \E e \in Slots, body \in Bodies : ResponseOk(e, body)
    \/ \E e \in Slots : ReadChunk(e)
    \/ \E e \in Slots : ReadDone(e)
    \/ \E e \in Slots : ReadRejects(e)
    \/ \E e \in Slots : RetryAttempt(e)
    \/ ClearConversation

Spec == Init /\ [][Next]_vars

\* ------------------------------------------------------------------------
\* The specification of the page whose awaits all settle
\* ------------------------------------------------------------------------
\* The promise that send e awaits settles: fetch resolves or rejects,
\* reader.read() delivers a chunk, reports the end of data or rejects, the
\* timer of sleep fires.
Settles(e) ==
    \/ FetchRejects(e)
    \/ \E location \in Locations : ResponseNotOk(e, location)
    \/ \E body \in Bodies : ResponseOk(e, body)
    \/ ReadRejects(e)
    \/ ReadDone(e)
    \/ ReadChunk(e)
    \/ RetryAttempt(e)

\* Every response, every read and every backoff wait terminates: a send
\* that waits is resumed by the event loop.
Fairness == \A e \in Slots : WF_vars(Settles(e))

SpecLive == Init /\ [][Next]_vars /\ Fairness

\* ------------------------------------------------------------------------
\* The specification of the page whose storage refuses every write
\* ------------------------------------------------------------------------
InitQuota ==
    /\ conversationHistory = <<>>
    /\ storage = <<>>
    /\ accessToken \in Tokens
    /\ href = NoHref
    /\ inputDisabled = FALSE
    /\ typingIndicator = FALSE
    /\ status = NoNotice
    /\ retryTimer = FALSE
    /\ storageFails = TRUE
    /\ send = [s \in Slots |-> IdleSend]

SpecQuota == InitQuota /\ [][Next]_vars

\* ------------------------------------------------------------------------
\* The specification of one stream
\* ------------------------------------------------------------------------
\* Lines the service may write, as bytes: two content records (the second
\* with a model), a credits record, a line that is no JSON (a record
\* followed by a stray character), a content record whose content is a
\* two-byte character, a record with a model and no content, and a credits
\* record that names a model.
StreamLines ==
    { <<"{", "T", "a", "}">>,
      <<"{", "M", "1", "T", "b", "}">>,
      <<"{", "K", "2", "}">>,
      <<"{", "T", "e", "}", "x">>,
      <<"{", "T", "E1", "E2", "}">>,
      <<"{", "M", "2", "}">>,
      <<"{", "K", "1", "M", "2", "}">> }

RECURSIVE SeqsUpTo(_, _)
SeqsUpTo(S, n) ==
    IF n = 0 THEN {<<>>}
    ELSE LET shorter == SeqsUpTo(S, n - 1)
         IN  shorter \cup {Append(q, x) : q \in shorter, x \in S}

\* The sets of at most k cut positions among the first n.
RECURSIVE CutSets(_, _)
CutSets(n, k) ==
    IF k = 0 \/ n <= 0 THEN {{}}
    ELSE CutSets(n - 1, k) \cup {c \cup {n} : c \in CutSets(n - 1, k - 1)}

\* The ways the network may cut a body of these lines: at no more than
\* MaxCuts places between two of its bytes.
CutsOf(lines) == CutSets(Len(WireBytes(lines)) - 1, MaxCuts)

\* The bodies of the stream specification: at most MaxLines lines.
StreamTexts == SeqsUpTo(StreamLines, MaxLines)

\* The user has submitted "h" on the freshly loaded page.
InitStream ==
    LET conv == <<UserMessage(<<"h">>)>>
    IN  /\ conversationHistory = conv
        /\ storage = SaveConversationToStorage(conv)
        /\ accessToken = NoToken
        /\ href = NoHref
        /\ inputDisabled = TRUE
        /\ typingIndicator = TRUE
        /\ status = NoNotice
        /\ retryTimer = FALSE
        /\ storageFails = FALSE
        /\ send = [s \in Slots |->
                      IF s = 1 THEN StartAttempt(IdleSend, 1, conv, NoToken)
                      ELSE IdleSend]

\* fetch resolves with a 2xx response carrying any of the stream bodies.
StreamResponse(e) ==
    /\ send[e].pc = "fetch"
    /\ \E lines \in StreamTexts :
           \E cuts \in CutsOf(lines) :
               ResponseOk(e, [lines |-> lines, cuts |-> cuts])

NextStream ==
    \/ \E e \in Slots : StreamResponse(e)
    \/ \E e \in Slots : ReadChunk(e)
    \/ \E e \in Slots : ReadDone(e)

SpecStream == InitStream /\ [][NextStream]_vars

\* ------------------------------------------------------------------------
\* The specification of the page loaded again (after the redirect to the
\* authentication service, which comes back with or without a token)
\* ------------------------------------------------------------------------
Letters ==
    <<"a", "b", "c", "d", "e", "f", "g", "h", "i", "j", "k", "l", "m",
      "n", "o", "p", "q", "r", "s", "t", "u", "v", "w", "y", "z">>

\* The conversation of n messages that earlier exchanges left in storage:
\* user and assistant messages in turn, each with a text of its own.
StoredConversation(n) ==
    [i \in 1..n |->
        LET text == <<Letters[((i - 1) % Len(Letters)) + 1]>>
        IN  IF i % 2 = 1 THEN UserMessage(text)
                         ELSE AssistantMessage(text, "1")]

\* The navigation is under way: the conversation is in storage, the page
\* that asked for the navigation is about to be replaced.
InitReload(lengths) ==
    /\ \E n \in lengths :
           /\ conversationHistory = StoredConversation(n)
           /\ storage = SaveConversationToStorage(StoredConversation(n))
    /\ accessToken = NoToken
    /\ href = "/auth"
    /\ inputDisabled = FALSE
    /\ typingIndicator = FALSE
    /\ status = NoNotice
    /\ retryTimer = FALSE
    /\ storageFails = FALSE
    /\ send = [s \in Slots |-> IdleSend]

\* A short conversation is in storage: the user can submit one more message.
InitAuth == InitReload(0..(MaxConv - 1))

\* The bodies of the 2xx responses of this specification: one content
\* record, or nothing at all.
AuthBodies ==
    { [lines |-> << <<"{", "M", "1", "T", "a", "}">> >>, cuts |-> {}],
      NoBody }

NextAuth ==
    \/ \E token \in Tokens : PageLoad(token)
    \/ AutoRetry
    \/ \E input \in Inputs : SendMessage(input)
    \/ \E e \in Slots, location \in Locations : ResponseNotOk(e, location)
    \/ \E e \in Slots, body \in AuthBodies : ResponseOk(e, body)
    \/ \E e \in Slots : ReadChunk(e)
    \/ \E e \in Slots : ReadDone(e)
    \/ \E e \in Slots : RetryAttempt(e)

SpecAuth == InitAuth /\ [][NextAuth]_vars

\* ------------------------------------------------------------------------
\* The specification of the page loaded again with a long conversation
\* ------------------------------------------------------------------------
InitWindow == InitReload(0..MaxStored)

NextWindow ==
    \/ \E token \in Tokens : PageLoad(token)
    \/ AutoRetry
    \/ \E e \in Slots : FetchRejects(e)
    \/ \E e \in Slots, location \in Locations : ResponseNotOk(e, location)
    \/ \E e \in Slots : RetryAttempt(e)
    \/ ClearConversation

SpecWindow == InitWindow /\ [][NextWindow]_vars

\* ------------------------------------------------------------------------
\* The specification of the store: the page loads with whatever is found
\* in storage
\* ------------------------------------------------------------------------
\* Elements of a stored array: messages as the page writes them, and an
\* object that is no message.
StoredItems ==
    { << <<"role", "user">>, <<"content", <<"h">>>> >>,
      << <<"role", "assistant">>, <<"content", <<"a">>>>, <<"model", "1">> >>,
      << <<"role", "assistant">>, <<"content", <<"b">>>>, <<"model", "">> >>,
      <<>> }

\* What localStorage may hold under STORAGE_KEY: nothing, the text of an
\* array, or a text that is no array.
StoredStates ==
    {<<>>}
        \cup {<<JsonArray(items)>> : items \in SeqsUpTo(StoredItems, MaxItems)}
        \cup {<<[kind |-> k, items |-> <<>>]>> :
                  k \in {"garbage", "null", "number", "object"}}

InitStore ==
    /\ conversationHistory = <<>>
    /\ storage \in StoredStates
    /\ accessToken = NoToken
    /\ href = "/auth"
    /\ inputDisabled = FALSE
    /\ typingIndicator = FALSE
    /\ status = NoNotice
    /\ retryTimer = FALSE
    /\ storageFails = FALSE
    /\ send = [s \in Slots |-> IdleSend]

\* saveConversationToStorage() of the loaded page, by itself.
Persist ==
    /\ href = NoHref
    /\ storage' = Write(conversationHistory)
    /\ UNCHANGED <<conversationHistory, accessToken, href, inputDisabled,
                   typingIndicator, status, retryTimer, storageFails, send>>

NextStore ==
    \/ \E token \in Tokens : PageLoad(token)
    \/ Persist

SpecStore == InitStore /\ [][NextStore]_vars

\* ------------------------------------------------------------------------
\* Vocabulary of the properties
\* ------------------------------------------------------------------------
Started(e) == send[e].pc # "idle"

Done(e) == send[e].pc = "done"

\* The last attempt of e met this.
Met(e, outcome) ==
    send[e].outcomes # <<>> /\ Last(send[e].outcomes) = outcome

\* An attempt that ended in failure: a response that is not ok and has no
\* Location, a fetch that rejected, a read that rejected.
FailureOutcomes == {"notok", "netfail", "readfail"}

\* The conversation that localStorage restores to.
Persisted == LoadConversationFromStorage(storage)

\* The number of notices of a kind among the statuses of e.
NoticeCount(e, kind) ==
    Cardinality({i \in 1..Len(send[e].statuses) : send[e].statuses[i].kind = kind})

\* ------------------------------------------------------------------------
\* C1
\* ------------------------------------------------------------------------
\* C1: when all MAX_RETRY_ATTEMPTS attempts of a send ended in failure and
\* nothing else acted, the finished send leaves the conversation, in memory
\* and in storage, as it was before the user message was appended.
C1_RolledBackAfterLastFailure ==
    \A e \in Slots :
        ( /\ Done(e)
          /\ send[e].quiet
          /\ Len(send[e].outcomes) = MAX_RETRY_ATTEMPTS
          /\ \A i \in 1..Len(send[e].outcomes) :
                 send[e].outcomes[i] \in FailureOutcomes )
        => /\ conversationHistory = Front(send[e].atSend)
           /\ Persisted = Front(send[e].atSend)

C3_NetworkFailureRetried ==
    \A e \in Slots :
        (Done(e) /\ (Met(e, "netfail") \/ Met(e, "readfail")))
        => /\ Len(send[e].outcomes) = MAX_RETRY_ATTEMPTS
           /\ send[e].result = "false"
           /\ NoticeCount(e, "failed") = 1
           /\ send[e].quiet => conversationHistory = Front(send[e].atSend)

\* ------------------------------------------------------------------------
\* C4
\* ------------------------------------------------------------------------
\* C4: a send never issues more than MAX_RETRY_ATTEMPTS requests; when every
\* attempt met a response that is not ok and has no Location it ends after
\* exactly MAX_RETRY_ATTEMPTS requests with one final-failure status and
\* result false; a success or a redirect on attempt k ends it after exactly
\* k requests.
C4_RequestsPerSend ==
    \A e \in Slots :
        Started(e) =>
            /\ send[e].requests <= MAX_RETRY_ATTEMPTS
            /\ send[e].requests = send[e].attemptNumber
            /\ ( /\ Done(e)
                 /\ \A i \in 1..Len(send[e].outcomes) :
                        send[e].outcomes[i] = "notok" )
               => /\ send[e].requests = MAX_RETRY_ATTEMPTS
                  /\ NoticeCount(e, "failed") = 1
                  /\ send[e].result = "false"
            /\ (Met(e, "ok") \/ Met(e, "location"))
               => /\ Done(e)
                  /\ send[e].result = "true"
                  /\ send[e].requests = Len(send[e].outcomes)
                  /\ NoticeCount(e, "failed") = 0

C4_Witness ==
    \E e \in Slots :
        /\ Done(e)
        /\ send[e].outcomes = <<"notok", "notok", "notok">>
        /\ send[e].requests = 3
        /\ send[e].result = "false"

\* ------------------------------------------------------------------------
\* C5
\* ------------------------------------------------------------------------
\* C5: the waits of a send are 1000 ms before attempt 2 and 2000 ms before
\* attempt 3: none before attempt 1, none after the last attempt.
C5_BackoffDelays ==
    \A e \in Slots :
        Started(e) =>
            /\ Len(send[e].waits) <= 2
            /\ send[e].waits = SubSeq(<<1000, 2000>>, 1, Len(send[e].waits))
            /\ Len(send[e].waits) =
                   IF send[e].pc = "sleep" THEN send[e].attemptNumber
                                           ELSE send[e].attemptNumber - 1

C5_Witness ==
    \E e \in Slots :
        /\ Done(e)
        /\ Len(send[e].outcomes) = 3
        /\ send[e].result = "false"
        /\ send[e].waits = <<1000, 2000>>

\* ------------------------------------------------------------------------
\* C6
\* ------------------------------------------------------------------------
\* C6: a send whose attempt met a response that is not ok and carries a
\* Location ends on that attempt with the redirect outcome: no retry is
\* announced for it, nothing is rolled back, and with nothing else acting
\* the user message is still the tail of the conversation and of the
\* persisted copy.
C6_RedirectKeepsUserMessage ==
    \A e \in Slots :
        (Done(e) /\ Met(e, "location"))
        => /\ send[e].result = "true"
           /\ ~send[e].rolledBack
           /\ send[e].attemptNumber = Len(send[e].outcomes)
           /\ NoticeCount(e, "retry") = Len(send[e].outcomes) - 1
           /\ NoticeCount(e, "failed") = 0
           /\ send[e].quiet =>
                  /\ conversationHistory = send[e].atSend
                  /\ TailIsUser(conversationHistory)
                  /\ Persisted = conversationHistory

C6_Witness ==
    \E e \in Slots :
        /\ Done(e)
        /\ send[e].outcomes = <<"notok", "notok", "location">>
        /\ send[e].quiet
        /\ TailIsUser(conversationHistory)
        /\ Persisted = conversationHistory

\* ------------------------------------------------------------------------
\* C7
\* ------------------------------------------------------------------------
\* C7: once an attempt met a redirect the send is over with result true:
\* the navigation is requested, no wait follows and no further request.
C7_RedirectEndsSend ==
    \A e \in Slots :
        Met(e, "location")
        => /\ Done(e)
           /\ send[e].result = "true"
           /\ send[e].navigated
           /\ href \in Locations \ {""}
           /\ send[e].requests = Len(send[e].outcomes)
           /\ Len(send[e].waits) = Len(send[e].outcomes) - 1

C7_Witness ==
    \E e \in Slots :
        /\ Done(e)
        /\ send[e].outcomes = <<"notok", "location">>
        /\ send[e].requests = 2
        /\ send[e].waits = <<1000>>
        /\ href = "/auth"

\* ------------------------------------------------------------------------
\* Vocabulary of the stream properties
\* ------------------------------------------------------------------------
\* The reader before its first chunk.
FreshReader == IdleSend

\* A line of the body that JSON.parse rejects.
Malformed(line) ==
    Trim(Utf8Decode(line).text) # <<>> /\ ~JsonParses(Utf8Decode(line).text)

\* A line of the body that is a content delta: a record that is no credits
\* record and carries content.
IsDelta(line) ==
    /\ JsonParses(Utf8Decode(line).text)
    /\ JsonField(Utf8Decode(line).text, "K") = Undefined
    /\ Truthy(JsonField(Utf8Decode(line).text, "T"))

\* The first byte position of line i of a body, less one.
RECURSIVE LineOffset(_, _)
LineOffset(lines, i) ==
    IF i = 1 THEN 0 ELSE LineOffset(lines, i - 1) + Len(lines[i - 1]) + 1

\* The byte positions of the lines that are not malformed.
SoundPositions(lines) ==
    {p \in 1..Len(WireBytes(lines)) :
        \E i \in 1..Len(lines) :
            /\ ~Malformed(lines[i])
            /\ LineOffset(lines, i) < p
            /\ p <= LineOffset(lines, i) + Len(lines[i]) + 1}

\* The body as it is delivered with its malformed lines taken out: every
\* other byte stays in the chunk it arrived in.
ChunksWithoutMalformed(body) ==
    ChunksOf(WireBytes(body.lines), body.cuts, SoundPositions(body.lines))

\* The contents of the content deltas of a body, in order.
RECURSIVE DeltaText(_)
DeltaText(lines) ==
    IF lines = <<>> THEN <<>>
    ELSE (IF IsDelta(Head(lines))
             THEN <<JsonField(Utf8Decode(Head(lines)).text, "T")>> ELSE <<>>)
             \o DeltaText(Tail(lines))

\* ------------------------------------------------------------------------
\* C8
\* ------------------------------------------------------------------------
\* C8: however the body is cut into chunks, the text of the finished stream
\* is the text read from the uncut body, and no more lines are reported as
\* malformed than for the uncut body.
C8_CutsDoNotChangeText ==
    \A e \in Slots :
        (Done(e) /\ Met(e, "ok"))
        => LET whole == HandleChunks(FreshReader,
                                     <<WireBytes(send[e].body.lines)>>)
           IN  /\ send[e].assistantMessage = whole.assistantMessage
               /\ send[e].warnings = whole.warnings

\* ------------------------------------------------------------------------
\* C9
\* ------------------------------------------------------------------------
\* C9: the malformed lines of a body change nothing but the warnings: the
\* stream is read to its end and classified as completed, and its text and
\* its credits notices are those of the same body without these lines.
C9_MalformedLinesAbsorbed ==
    \A e \in Slots :
        (Done(e) /\ Met(e, "ok"))
        => LET sound == HandleChunks(FreshReader,
                                     ChunksWithoutMalformed(send[e].body))
           IN  /\ send[e].assistantMessage = sound.assistantMessage
               /\ send[e].statuses = sound.statuses
               /\ send[e].chunks = <<>>
               /\ send[e].result = "true"

\* ------------------------------------------------------------------------
\* C10
\* ------------------------------------------------------------------------
\* C10: the text of the finished stream is the concatenation, in order, of
\* the contents of the content deltas of the body, and the partial text was
\* rendered once per content delta, each time with the text up to and
\* including that delta.
C10_TextIsConcatenationOfDeltas ==
    \A e \in Slots :
        (Done(e) /\ Met(e, "ok"))
        => LET text == DeltaText(send[e].body.lines)
           IN  /\ send[e].assistantMessage = text
               /\ Len(send[e].renders) = Len(text)
               /\ \A k \in 1..Len(send[e].renders) :
                      send[e].renders[k].text = SubSeq(text, 1, k)

\* ------------------------------------------------------------------------
\* Vocabulary of the request properties
\* ------------------------------------------------------------------------
\* This step starts an attempt of e: its request is built and sent.
Requests(e) == send'[e].requests = send[e].requests + 1

\* Message i of the history sent is message k of this conversation.
SameMessage(sent, conv, i, k) ==
    /\ Property(sent[i], "role", Undefined) = conv[k].role
    /\ Property(sent[i], "content", NoContent) = conv[k].content

InFlight(e) == send[e].pc \in {"fetch", "read", "sleep"}

\* C12: in every reachable state at most one exchange is in flight.
C12_OneExchangeInFlight ==
    Cardinality({e \in Slots : InFlight(e)}) <= 1

\* ------------------------------------------------------------------------
\* C13
\* ------------------------------------------------------------------------
\* C13: a send whose 2xx stream ended without any text ends there with
\* result true: no wait and no retry follow, no failure is reported, nothing
\* is rolled back and, with nothing else acting, the conversation is the one
\* of send time with the user message at its tail.
C13_EmptyCompletionIsSuccess ==
    \A e \in Slots :
        (Met(e, "ok") /\ send[e].assistantMessage = <<>>)
        => /\ Done(e)
           /\ send[e].result = "true"
           /\ ~send[e].rolledBack
           /\ NoticeCount(e, "failed") = 0
           /\ Len(send[e].waits) = Len(send[e].outcomes) - 1
           /\ NoticeCount(e, "retry") = Len(send[e].outcomes) - 1
           /\ send[e].requests = Len(send[e].outcomes)
           /\ send[e].quiet =>
                  /\ conversationHistory = send[e].atSend
                  /\ TailIsUser(conversationHistory)

C13_Witness ==
    \E e \in Slots :
        /\ Done(e)
        /\ send[e].outcomes = <<"notok", "ok">>
        /\ send[e].body.lines = <<>>
        /\ send[e].assistantMessage = <<>>
        /\ send[e].result = "true"
        /\ send[e].quiet
        /\ conversationHistory = send[e].atSend

\* ------------------------------------------------------------------------
\* C14
\* ------------------------------------------------------------------------
\* C14: every message of a request body carries role and content and
\* nothing else.
C14_OnlyRoleAndContentSent ==
    \A e \in Slots :
        Started(e) =>
            \A i \in 1..Len(send[e].request.body.messages) :
                \A k \in 1..Len(send[e].request.body.messages[i]) :
                    send[e].request.body.messages[i][k][1]
                        \in {"role", "content"}

\* ------------------------------------------------------------------------
\* C15
\* ------------------------------------------------------------------------
\* C15: the request of every attempt is built from the conversation and the
\* credential as they are when the attempt starts: its history is the
\* window of that conversation, and it carries the Authorization header
\* exactly when a credential is held then.
C15_RequestBuiltFromCurrentState ==
    [][\A e \in Slots :
          Requests(e) =>
              /\ send'[e].request.body.messages =
                     Stringify(SliceLast(conversationHistory',
                                         HISTORY_WINDOW)).items
              /\ accessToken' # NoToken
                     => <<"Authorization", accessToken'>>
                            \in send'[e].request.headers
              /\ accessToken' = NoToken
                     => \A h \in send'[e].request.headers :
                            h[1] # "Authorization"]_vars

C15_Witness ==
    \E e \in Slots :
        /\ send[e].pc = "fetch"
        /\ send[e].attemptNumber = 2
        /\ send[e].atSend # <<>>
        /\ conversationHistory = <<>>
        /\ send[e].request.body.messages = <<>>
        /\ accessToken # NoToken
        /\ <<"Authorization", accessToken>> \in send[e].request.headers

\* ------------------------------------------------------------------------
\* Vocabulary of the storage properties
\* ------------------------------------------------------------------------
\* The page has loaded.
Loaded == href = NoHref

IsMessage(m) ==
    m.role \in {"user", "assistant", "system"} /\ m.content # NoContent

\* The entry holds a saved conversation (possibly the empty one).
HoldsConversation(stored) ==
    /\ stored # <<>>
    /\ stored[1].kind = "array"
    /\ \A i \in 1..Len(stored[1].items) :
           IsMessage(JsonToMessage(stored[1].items[i]))

\* This step saves the conversation just as it was loaded from the entry.
SavesAsLoaded ==
    /\ Loaded
    /\ conversationHistory = LoadConversationFromStorage(storage)
    /\ storage' = SaveConversationToStorage(conversationHistory)

\* ------------------------------------------------------------------------
\* C16
\* ------------------------------------------------------------------------
\* C16 as stated: loading and then saving unchanged leaves the stored state
\* identical, whether the entry held a conversation, the empty conversation
\* or was absent.
C16_LoadThenSaveIsIdentity ==
    [][(SavesAsLoaded /\ (storage = <<>> \/ HoldsConversation(storage)))
           => storage' = storage]_vars

\* C16 (amended): loading and then saving unchanged leaves the stored state
\* identical when the entry held a conversation, the empty one included;
\* when the entry was absent the save creates an entry holding the empty
\* conversation, from which the same (empty) conversation is loaded.
C16_LoadThenSaveKeepsConversation ==
    [][SavesAsLoaded =>
           /\ HoldsConversation(storage) => storage' = storage
           /\ storage = <<>> =>
                  /\ storage' = <<JsonArray(<<>>)>>
                  /\ LoadConversationFromStorage(storage')
                         = LoadConversationFromStorage(storage)]_vars

C16_Witness ==
    /\ Loaded
    /\ Len(conversationHistory) = 2
    /\ conversationHistory[1] = UserMessage(<<"h">>)
    /\ conversationHistory[2] = AssistantMessage(<<"b">>, "")
    /\ storage = SaveConversationToStorage(conversationHistory)
    /\ conversationHistory = LoadConversationFromStorage(storage)

\* ------------------------------------------------------------------------
\* C17
\* ------------------------------------------------------------------------
\* A line of the body that is a credits record.
IsCredits(line) ==
    /\ JsonParses(Utf8Decode(line).text)
    /\ JsonField(Utf8Decode(line).text, "K") # Undefined

\* The byte positions of the lines that are no credits records.
OtherPositions(lines) ==
    {p \in 1..Len(WireBytes(lines)) :
        \E i \in 1..Len(lines) :
            /\ ~IsCredits(lines[i])
            /\ LineOffset(lines, i) < p
            /\ p <= LineOffset(lines, i) + Len(lines[i]) + 1}

\* The body as it is delivered with its credits records taken out.
ChunksWithoutCredits(body) ==
    ChunksOf(WireBytes(body.lines), body.cuts, OtherPositions(body.lines))

CreditsLines(lines) == {i \in 1..Len(lines) : IsCredits(lines[i])}

\* C17: a credits record does not end the stream.  The finished stream was
\* read to the end of data, its text is the text of the same delivery
\* without the credits records, whatever came after them, and each credits
\* record that arrived whole gave one status notice.
C17_CreditsDoNotEndStream ==
    \A e \in Slots :
        (Done(e) /\ Met(e, "ok"))
        => /\ send[e].chunks = <<>>
           /\ send[e].assistantMessage =
                  HandleChunks(FreshReader,
                               ChunksWithoutCredits(send[e].body)).assistantMessage
           /\ send[e].body.cuts = {}
                  => NoticeCount(e, "credits")
                         = Cardinality(CreditsLines(send[e].body.lines))

C17_Witness ==
    \E e \in Slots :
        /\ Done(e) /\ Met(e, "ok")
        /\ send[e].body.lines =
               << <<"{", "K", "2", "}">>, <<"{", "M", "1", "T", "b", "}">> >>
        /\ send[e].body.cuts = {}
        /\ NoticeCount(e, "credits") = 1
        /\ send[e].assistantMessage = <<"b">>
        /\ Last(conversationHistory) = AssistantMessage(<<"b">>, "1")

\* ------------------------------------------------------------------------
\* C18
\* ------------------------------------------------------------------------
\* This step ends the send e with result false: the rollback runs in it.
RollsBack(e) ==
    /\ send[e].pc # "done"
    /\ send'[e].pc = "done"
    /\ send'[e].result = "false"

\* C18: the rollback removes the tail of the conversation, and saves the
\* shortened conversation, exactly when the conversation is not empty and
\* its tail is a user message; otherwise the conversation and the stored
\* copy stay as they are.  It never removes more than one message.
C18_RollbackOnlyUserTail ==
    [][\A e \in Slots :
          RollsBack(e) =>
              /\ Len(conversationHistory') >= Len(conversationHistory) - 1
              /\ IF TailIsUser(conversationHistory)
                    THEN /\ conversationHistory' = Front(conversationHistory)
                         /\ storage' =
                                SaveConversationToStorage(conversationHistory')
                    ELSE /\ conversationHistory' = conversationHistory
                         /\ storage' = storage]_vars

C18_Witness ==
    \E e \in Slots :
        /\ Done(e)
        /\ send[e].result = "false"
        /\ ~send[e].rolledBack
        /\ conversationHistory # <<>>
        /\ Last(conversationHistory).role = "assistant"
        /\ Len(conversationHistory) = Len(send[e].atSend) + 1
        /\ Persisted = conversationHistory

\* ------------------------------------------------------------------------
\* C19
\* ------------------------------------------------------------------------
\* C19: when the entry is absent, is no JSON, or is JSON that is no sequence
\* of messages, the conversation of the loaded page is empty.
C19_CorruptStoreLoadsEmpty ==
    (Loaded /\ ~HoldsConversation(storage)) => conversationHistory = <<>>

\* ------------------------------------------------------------------------
\* C20
\* ------------------------------------------------------------------------
\* C20: when every write to storage throws, nothing is stored and the
\* conversation in memory is updated all the same: a submitted message is
\* appended and its send started, a send that ran out of attempts removes
\* it, a completed send appends the assistant message, a redirected send
\* leaves it, each with the result it has when storage works.
C20_StorageFailureIsNotFatal ==
    /\ storageFails => storage = <<>>
    /\ conversationHistory # <<>> => \E e \in Slots : Started(e)
    /\ \A e \in Slots :
           (Started(e) /\ send[e].quiet) =>
               /\ ~Done(e) => conversationHistory = send[e].atSend
               /\ (Done(e) /\ Met(e, "notok"))
                      => /\ send[e].result = "false"
                         /\ conversationHistory = Front(send[e].atSend)
               /\ (Done(e) /\ Met(e, "location"))
                      => /\ send[e].result = "true"
                         /\ conversationHistory = send[e].atSend
               /\ (Done(e) /\ Met(e, "ok"))
                      => /\ send[e].result = "true"
                         /\ conversationHistory =
                                WithAssistant(send[e].atSend,
                                              send[e].assistantMessage,
                                              send[e].handledModel)

C20_Witness ==
    \E e \in Slots :
        /\ storageFails
        /\ Done(e)
        /\ send[e].quiet
        /\ send[e].outcomes = <<"notok", "ok">>
        /\ send[e].result = "true"
        /\ Len(conversationHistory) = 2
        /\ Last(conversationHistory).role = "assistant"
        /\ storage = <<>>

\* ------------------------------------------------------------------------
\* C21
\* ------------------------------------------------------------------------
\* C21: from any state, a step of the clear button leaves the conversation
\* in memory empty and the backing store empty, and a load of the store it
\* leaves yields the empty conversation.
C21_ClearEmptiesMemoryAndStore ==
    [][ClearConversation =>
          /\ conversationHistory' = <<>>
          /\ storage' = <<>>
          /\ LoadConversationFromStorage(storage') = <<>>]_vars

\* The clear button was pressed while a send that had sent a non-empty
\* conversation was still waiting for its response.
C21_Witness ==
    /\ status.kind = "cleared"
    /\ conversationHistory = <<>>
    /\ storage = <<>>
    /\ \E e \in Slots :
        /\ InFlight(e)
        /\ ~send[e].quiet
        /\ Len(send[e].atSend) > 0

\* ------------------------------------------------------------------------
\* C22
\* ------------------------------------------------------------------------
\* The attempts of send e that ended in success.
OkCount(r) ==
    Cardinality({i \in 1..Len(r.outcomes) : r.outcomes[i] = "ok"})

\* C22: a step that lengthens the conversation with an assistant message at
\* its tail appends exactly one message, the text and model of one send
\* whose read ended in that step; that attempt is the only successful one
\* of the send and the send is over with it, so that over all its attempts
\* one send appends at most one assistant message.
C22_OneAssistantMessagePerSend ==
    [][/\ (/\ Len(conversationHistory') > Len(conversationHistory)
           /\ Last(conversationHistory').role = "assistant")
          => \E e \in Slots :
                /\ send[e].pc = "read"
                /\ send'[e].pc = "done"
                /\ OkCount(send[e]) = 0
                /\ OkCount(send'[e]) = 1
                /\ conversationHistory' =
                      Append(conversationHistory,
                             AssistantMessage(send[e].assistantMessage,
                                              send[e].handledModel))
       /\ \A e \in Slots :
            /\ OkCount(send'[e]) <= 1
            /\ OkCount(send'[e]) = 1 => send'[e].pc = "done"]_vars

\* A send whose first attempt failed and whose second attempt succeeded with
\* text, nothing else having acted: the conversation is the one of the
\* submit with one assistant message after it.
C22_Witness ==
    \E e \in Slots :
        /\ Done(e)
        /\ send[e].quiet
        /\ send[e].outcomes = <<"notok", "ok">>
        /\ send[e].assistantMessage # <<>>
        /\ conversationHistory =
              Append(send[e].atSend,
                     AssistantMessage(send[e].assistantMessage,
                                      send[e].handledModel))

\* ------------------------------------------------------------------------
\* C23
\* ------------------------------------------------------------------------
\* The 50 ms timer armed by checkForAuthToken fires in this step.
TimerFires == retryTimer /\ ~retryTimer' /\ href' = href

\* Nothing has called sendWrapper since the page loaded.
Untouched == \A s \in Slots : send[s].pc = "idle"

\* The timer fires on the page as the load left it: the conversation is the
\* restored one, it ends with a user message and a credential is held; the
\* step leaves the conversation and the store as they are and sends one
\* request carrying exactly the restored conversation and the credential.
ResumesRestored ==
    (TimerFires /\ Untouched)
    => /\ conversationHistory = Persisted
       /\ TailIsUser(conversationHistory)
       /\ accessToken # NoToken
       /\ conversationHistory' = conversationHistory
       /\ storage' = storage
       /\ \E e \in Slots :
           /\ Requests(e)
           /\ send'[e].pc = "fetch"
           /\ send'[e].atSend = conversationHistory
           /\ send'[e].resumed
           /\ <<"Authorization", accessToken>> \in send'[e].request.headers
           /\ LET sent == send'[e].request.body.messages
              IN  /\ Len(sent) = Len(conversationHistory)
                  /\ \A i \in 1..Len(sent) :
                         SameMessage(sent, conversationHistory, i, i)
           /\ \A s \in Slots \ {e} : send'[s] = send[s]

ModelAfter(line, model) ==
    IF /\ JsonParses(Utf8Decode(line).text)
       /\ ~IsCredits(line)
       /\ Truthy(JsonField(Utf8Decode(line).text, "M"))
       THEN JsonField(Utf8Decode(line).text, "M")
       ELSE model

\* For each content delta of these lines, in order, the model most recently
\* seen when the delta is handled.
RECURSIVE ModelsAtDeltas(_, _)
ModelsAtDeltas(lines, model) ==
    IF lines = <<>> THEN <<>>
    ELSE (IF IsDelta(Head(lines))
             THEN <<ModelAfter(Head(lines), model)>> ELSE <<>>)
         \o ModelsAtDeltas(Tail(lines), ModelAfter(Head(lines), model))

\* C24: the stream of an uncut body gave one render for each content delta,
\* and each render shows the model most recently seen in the stream when
\* its delta was handled.
C24_RenderShowsLatestModel ==
    \A e \in Slots :
        (Done(e) /\ Met(e, "ok") /\ send[e].body.cuts = {})
        => LET shown == ModelsAtDeltas(send[e].body.lines, "")
           IN  /\ Len(send[e].renders) = Len(shown)
               /\ \A i \in 1..Len(shown) : send[e].renders[i].model = shown[i]

\* ------------------------------------------------------------------------
\* C25
\* ------------------------------------------------------------------------
\* The headers of this name among the headers of a request.
HeadersNamed(request, name) == {h \in request.headers : h[1] = name}

\* C25: the request of every attempt has an Authorization header exactly
\* when a token is held as the attempt starts, a single one whose value is
\* that token, and always has the Content-Type and the Redirect header.
C25_AuthorizationIffTokenHeld ==
    [][\A e \in Slots :
          Requests(e) =>
              LET request == send'[e].request
              IN  /\ (HeadersNamed(request, "Authorization") # {})
                         <=> (accessToken # NoToken)
                  /\ HeadersNamed(request, "Authorization")
                         \subseteq {<<"Authorization", accessToken>>}
                  /\ HeadersNamed(request, "Content-Type")
                         = {<<"Content-Type", "application/json">>}
                  /\ Cardinality(HeadersNamed(request, "Redirect")) = 1]_vars

\* The second attempt of a send of the page that holds a token is waiting
\* for its response: its request has the three headers.
C25_Witness ==
    \E e \in Slots :
        /\ send[e].pc = "fetch"
        /\ send[e].attemptNumber = 2
        /\ accessToken = "tok"
        /\ send[e].request.headers =
              {<<"Content-Type", "application/json">>, <<"Redirect", "/">>,
               <<"Authorization", "tok">>}

\* ------------------------------------------------------------------------
\* C26
\* ------------------------------------------------------------------------
\* The cut after byte p of these bytes falls inside a two-byte character.
InsideCharacter(bytes, p) ==
    /\ p < Len(bytes)
    /\ bytes[p] = "E1"
    /\ bytes[p + 1] = "E2"

\* The body was cut, and only inside multi-byte characters.
CutInsideCharacter(body) ==
    /\ body.cuts # {}
    /\ \A p \in body.cuts : InsideCharacter(WireBytes(body.lines), p)

\* C26: the text of a finished stream whose body was cut inside a
\* multi-byte character is the text read from the uncut body.
C26_CutInsideCharacterKeepsText ==
    \A e \in Slots :
        (Done(e) /\ Met(e, "ok") /\ CutInsideCharacter(send[e].body))
        => send[e].assistantMessage =
               HandleChunks(FreshReader,
                            <<WireBytes(send[e].body.lines)>>).assistantMessage

\* ------------------------------------------------------------------------
\* C27
\* ------------------------------------------------------------------------
\* The model most recently seen when all these lines have been handled.
RECURSIVE LastModel(_, _)
LastModel(lines, model) ==
    IF lines = <<>> THEN model
    ELSE LastModel(Tail(lines), ModelAfter(Head(lines), model))

\* C27: the assistant message appended when the stream ends holds the
\* accumulated text and the model held at that moment; for an uncut body
\* that model is the last one named by a record that is no credits record,
\* with or without content, and the text is that of the content deltas.
C27_AppendedMessageHasLastModel ==
    \A e \in Slots :
        (Done(e) /\ Met(e, "ok") /\ send[e].assistantMessage # <<>>)
        => /\ Last(conversationHistory) =
                 AssistantMessage(send[e].assistantMessage,
                                  send[e].handledModel)
           /\ send[e].body.cuts = {}
                  => /\ Last(conversationHistory).model =
                           LastModel(send[e].body.lines, "")
                     /\ Last(conversationHistory).content =
                           DeltaText(send[e].body.lines)

\* The stream gave text and then a record with a model and no content: the
\* appended message records that model.
C27_Witness ==
    \E e \in Slots :
        /\ Done(e) /\ Met(e, "ok")
        /\ send[e].body.lines =
               << <<"{", "T", "a", "}">>, <<"{", "M", "2", "}">> >>
        /\ send[e].body.cuts = {}
        /\ Last(conversationHistory) = AssistantMessage(<<"a">>, "2")

\* ------------------------------------------------------------------------
\* C28
\* ------------------------------------------------------------------------
\* C28: in every reachable state each assistant message of the conversation
\* comes right after a user message; in particular the conversation never
\* begins with an assistant message.
C28_AssistantFollowsUser ==
    \A i \in 1..Len(conversationHistory) :
        conversationHistory[i].role = "assistant"
        => /\ i > 1
           /\ conversationHistory[i - 1].role = "user"

\* ------------------------------------------------------------------------
\* C29
\* ------------------------------------------------------------------------
\* C29: with a storage that accepts every write, in every state between
\* two handler runs the stored conversation restores to the conversation in
\* memory.
C29_StoreMatchesMemory ==
    ~storageFails => Persisted = conversationHistory

\* A send that followed an earlier exchange ran out of attempts and took
\* its user message back: memory and store both hold the earlier message.
C29_Witness ==
    \E e \in Slots :
        /\ Done(e)
        /\ send[e].rolledBack
        /\ Len(send[e].atSend) = 2
        /\ conversationHistory = Front(send[e].atSend)
        /\ storage = SaveConversationToStorage(conversationHistory)
        /\ Persisted = conversationHistory

\* ------------------------------------------------------------------------
\* C30
\* ------------------------------------------------------------------------
\* sendWrapper is called for e in this step.
Starts(e) == Requests(e) /\ send'[e].attemptNumber = 1

\* The send e returns or throws in this step.
Ends(e) == InFlight(e) /\ send'[e].pc = "done"

\* C30: the step that starts a send disables the input and shows the typing
\* indicator; the step that ends it, whatever its result, enables the input
\* and hides the indicator; and when every await settles, every send in
\* flight ends, leaving the input enabled and the indicator hidden.
C30_BusyStateEnds ==
    /\ [][\A e \in Slots :
            /\ Starts(e) => (inputDisabled' /\ typingIndicator')
            /\ Ends(e) => (~inputDisabled' /\ ~typingIndicator')]_vars
    /\ \A e \in Slots :
          InFlight(e) ~> (Done(e) /\ ~inputDisabled /\ ~typingIndicator)

\* A send ended with an exception at its second attempt: the input is
\* enabled and the typing indicator hidden.
C30_Witness ==
    \E e \in Slots :
        /\ Done(e)
        /\ send[e].result = "threw"
        /\ send[e].attemptNumber = 2
        /\ ~inputDisabled
        /\ ~typingIndicator

\* ------------------------------------------------------------------------
\* C31
\* ------------------------------------------------------------------------
\* An attempt of e meets a response that is not ok and has no Location in
\* this step, and attempts remain.
FailsWithAttemptsLeft(e) ==
    /\ send[e].pc = "fetch"
    /\ send'[e].pc = "sleep"
    /\ send'[e].outcomes = Append(send[e].outcomes, "notok")

\* C31: the step of a failed attempt that is not the last leaves the
\* conversation and the stored copy as they are; and while a send waits
\* between attempts with nothing else having acted, the conversation in
\* memory and in storage is the one of send time, the user message at its
\* tail and no assistant message added.
C31_FailedAttemptChangesNothing ==
    /\ [][\A e \in Slots :
            FailsWithAttemptsLeft(e)
            => /\ conversationHistory' = conversationHistory
               /\ storage' = storage]_vars
    /\ [](\A e \in Slots :
            (send[e].pc = "sleep" /\ send[e].quiet)
            => /\ conversationHistory = send[e].atSend
               /\ Persisted = send[e].atSend
               /\ TailIsUser(conversationHistory))

\* The second attempt of a send has failed like the first: the send waits
\* for its third attempt with the conversation of send time.
C31_Witness ==
    \E e \in Slots :
        /\ send[e].pc = "sleep"
        /\ send[e].quiet
        /\ send[e].outcomes = <<"notok", "notok">>
        /\ conversationHistory = send[e].atSend
        /\ TailIsUser(conversationHistory)
        /\ Persisted = conversationHistory

\* ------------------------------------------------------------------------
\* C32
\* ------------------------------------------------------------------------
\* C32: a send that is over has a boolean result, issued between one and
\* MAX_RETRY_ATTEMPTS requests and waited at most MAX_RETRY_ATTEMPTS - 1
\* times, whatever its attempts met.
C32_EndsWithBooleanResult ==
    \A e \in Slots :
        Done(e) =>
            /\ send[e].result \in {"true", "false"}
            /\ send[e].requests \in 1..MAX_RETRY_ATTEMPTS
            /\ Len(send[e].waits) <= MAX_RETRY_ATTEMPTS - 1

\* ------------------------------------------------------------------------
\* C33
\* ------------------------------------------------------------------------
\* The text s is the beginning of the text t and t is longer.
Extends(t, s) == Len(s) < Len(t) /\ SubSeq(t, 1, Len(s)) = s

\* C33: in every state the snapshots rendered by a send each extend the one
\* before, and the last one is the text accumulated so far; the assistant
\* message appended when the stream ends, nothing else having acted, has
\* the last snapshot as its content.
C33_SnapshotsOnlyGrow ==
    \A e \in Slots :
        LET shown == send[e].renders
        IN  /\ \A k \in 2..Len(shown) : Extends(shown[k].text, shown[k - 1].text)
            /\ shown # <<>> => Last(shown).text = send[e].assistantMessage
            /\ shown = <<>> => send[e].assistantMessage = <<>>
            /\ (Done(e) /\ Met(e, "ok") /\ send[e].quiet /\ shown # <<>>)
               => /\ Last(conversationHistory).role = "assistant"
                  /\ Last(conversationHistory).content = Last(shown).text

\* Two content deltas arrived in two chunks: two snapshots, the second
\* extending the first, and the appended message holds the second.
C33_Witness ==
    \E e \in Slots :
        /\ Done(e) /\ Met(e, "ok")
        /\ send[e].body.cuts = {5}
        /\ Len(send[e].renders) = 2
        /\ send[e].renders[1].text = <<"a">>
        /\ send[e].renders[2].text = <<"a", "b">>
        /\ Last(conversationHistory).content = <<"a", "b">>

\* ------------------------------------------------------------------------
\* C34
\* ------------------------------------------------------------------------
\* The inputs that are empty once trimmed.
BlankInputs == {input \in Inputs : Trim(input) = <<>>}

\* C34: a submit of an empty or whitespace-only input changes nothing: the
\* conversation, the store, the sends and their requests, the busy state
\* and everything else stay as they are.
C34_BlankSubmitChangesNothing ==
    [][\A input \in BlankInputs :
          SendMessage(input) =>
              /\ conversationHistory' = conversationHistory
              /\ storage' = storage
              /\ send' = send
              /\ inputDisabled' = inputDisabled
              /\ typingIndicator' = typingIndicator
              /\ UNCHANGED vars]_vars

\* After a first exchange the input is enabled again and a whitespace-only
\* input can be submitted.
C34_Witness ==
    /\ Len(conversationHistory) = 1
    /\ storage # <<>>
    /\ \E e \in Slots : Done(e)
    /\ <<SP>> \in BlankInputs
    /\ ENABLED SendMessage(<<SP>>)

====
